---- MODULE Spec2Model ----
(***************************************************************************)
(* OSC codec of deno-plc/adapter-osc: the optimized codec (decodeOSC,      *)
(* encodeOSC, encodeOSC_UTF8, align4), the reference codec (decodeOSCSlow, *)
(* encodeOSCSlow, pad), and the properties the specification states about  *)
(* them.                                                                   *)
(*                                                                         *)
(* Representation.  A Uint8Array is a sequence of 0..255; the 0-based      *)
(* offset o of the code is index o+1.  A string is its sequence of UTF-16  *)
(* code units, so Len is the code's .length.  A number is the 8 bytes of   *)
(* its IEEE-754 double, big-endian (what the value is in the engine).  An  *)
(* OSCArg is a record [t, v]: t is "str", "num", "bool" or "blob" and v    *)
(* the code units, the double's bytes, <<1>>/<<0>>, or the blob's bytes.   *)
(* t = "empty" is a hole of a sparse Array.                                *)
(***************************************************************************)
EXTENDS Integers, Sequences, FiniteSets, TLC

VARIABLES pc, efn, inAddr, inArgs, inOptions, enc, wire, dfn, dec,
          hfn, hin, hout,
          inbound, taken, delivered, recvThrown, outbound, sendCalls, socket

\* a call of the codec: the encoder called, its inputs and outcome, the packet,
\* the decoder called and its outcome
codecVars == <<efn, inAddr, inArgs, inOptions, enc, wire, dfn, dec>>

\* a call of align4 or pad: the function, its arguments, its result
helperVars == <<hfn, hin, hout>>

\* a TCPOSCAdapter: the chunks still to come, each as the packets
\* #slip_handler.decode(data) holds for the loop of recv; the packets the loop
\* has taken; the calls of on_packet; the errors recv has thrown; the calls of
\* send still to come; the calls of send made; the calls of #send_socket
adapterVars == <<inbound, taken, delivered, recvThrown, outbound, sendCalls, socket>>

vars == <<pc, codecVars, helperVars, adapterVars>>

(***************************************************************************)
(* ascii.ts: the byte values the codec names.                              *)
(***************************************************************************)
ASCII_NULL == 0
ASCII_COMMA == 44
ASCII_SLASH == 47
ASCII_s == 115
ASCII_i == 105
ASCII_b == 98
ASCII_f == 102
ASCII_d == 100
ASCII_T == 84
ASCII_F == 70

(***************************************************************************)
(* Sequences of bytes and of bits.                                         *)
(***************************************************************************)
Zeros(n) == [k \in 1..n |-> 0]

AllZero(s) == \A k \in 1..Len(s) : s[k] = 0

RECURSIVE Flatten(_)
Flatten(ss) == IF ss = <<>> THEN <<>> ELSE Head(ss) \o Flatten(Tail(ss))

\* n >= 0 as w bits, most significant first
RECURSIVE ToBits(_, _)
ToBits(n, w) == IF w = 0 THEN <<>> ELSE ToBits(n \div 2, w - 1) \o <<n % 2>>

\* at most 31 bits, most significant first
RECURSIVE FromBits(_)
FromBits(bs) ==
    IF bs = <<>> THEN 0
    ELSE 2 * FromBits(SubSeq(bs, 1, Len(bs) - 1)) + bs[Len(bs)]

BytesToBits(by) == Flatten([k \in 1..Len(by) |-> ToBits(by[k], 8)])

BitsToBytes(bs) == [k \in 1..(Len(bs) \div 8) |-> FromBits(SubSeq(bs, 8 * k - 7, 8 * k))]

\* bs + 1 modulo 2^Len(bs)
RECURSIVE IncBits(_)
IncBits(bs) ==
    IF bs = <<>> THEN <<>>
    ELSE IF bs[Len(bs)] = 0 THEN SubSeq(bs, 1, Len(bs) - 1) \o <<1>>
    ELSE IncBits(SubSeq(bs, 1, Len(bs) - 1)) \o <<0>>

\* two's complement negation
NegBits(bs) == IncBits([k \in 1..Len(bs) |-> 1 - bs[k]])

\* 1-based position of the first 1 bit, 0 when there is none
FirstOne(bs) ==
    IF AllZero(bs) THEN 0
    ELSE CHOOSE p \in 1..Len(bs) : bs[p] = 1 /\ \A q \in 1..(p - 1) : bs[q] = 0

LastN(bs, n) == SubSeq(bs, Len(bs) - n + 1, Len(bs))

(***************************************************************************)
(* Typed-array primitives.                                                 *)
(***************************************************************************)
\* data[i]: -1 stands for undefined (index outside the array)
At(arr, i) == IF i >= 0 /\ i < Len(arr) THEN arr[i + 1] ELSE -1

\* Uint8Array.prototype.indexOf(v, from): 0-based, -1 when absent
IndexOf(arr, v, from) ==
    LET start == IF from < 0 THEN (IF Len(arr) + from < 0 THEN 0 ELSE Len(arr) + from)
                 ELSE from
        hits == {k \in start..(Len(arr) - 1) : arr[k + 1] = v}
    IN IF hits = {} THEN -1 ELSE CHOOSE k \in hits : \A j \in hits : k <= j

\* Uint8Array.prototype.slice(from, to) with from >= 0
Slice(arr, from, to) ==
    LET n == Len(arr)
        lo == IF from > n THEN n ELSE from
        hi == IF to < 0 THEN (IF n + to < 0 THEN 0 ELSE n + to)
              ELSE IF to > n THEN n ELSE to
    IN IF hi <= lo THEN <<>> ELSE SubSeq(arr, lo + 1, hi)

\* the buffer with bytes by stored at offset off (the caller checks that they fit)
WriteAt(buf, off, by) ==
    [k \in 1..Len(buf) |-> IF k > off /\ k <= off + Len(by) THEN by[k - off] ELSE buf[k]]

(***************************************************************************)
(* align4 and pad.                                                         *)
(***************************************************************************)
MaxInt32 == 2147483647

\* a variant of align4 without the mask & -4
align4_noMask(x) == x + 3

\* ((x | 0) + 3) & -4 on 32-bit integers: the sum wraps past 2^31 - 1, and
\* & -4 clears the two low bits (rounds towards minus infinity)
align4(x) ==
    IF x > MaxInt32 - 3 THEN (0 - MaxInt32) - 1
    ELSE ((x + 3) \div 4) * 4

\* a variant of pad that leaves the minimum padding out
pad_contentOnly(content, minPad) == (4 - (content % 4)) % 4

\* (4 - ((content + minPad) % 4)) % 4 + minPad
pad(content, minPad) == ((4 - ((content + minPad) % 4)) % 4) + minPad

(***************************************************************************)
(* TextEncoder and TextDecoder (UTF-8).                                    *)
(***************************************************************************)
REPLACEMENT == 65533
BOM == 65279

IsHighSurrogate(u) == u >= 55296 /\ u <= 56319

IsLowSurrogate(u) == u >= 56320 /\ u <= 57343

\* the scalar values of a string: a surrogate pair is one value, a lone
\* surrogate becomes U+FFFD
RECURSIVE ScalarValues(_)
ScalarValues(str) ==
    IF str = <<>> THEN <<>>
    ELSE IF IsHighSurrogate(str[1]) /\ Len(str) >= 2 /\ IsLowSurrogate(str[2])
    THEN <<65536 + ((str[1] - 55296) * 1024) + (str[2] - 56320)>>
             \o ScalarValues(SubSeq(str, 3, Len(str)))
    ELSE IF IsHighSurrogate(str[1]) \/ IsLowSurrogate(str[1])
    THEN <<REPLACEMENT>> \o ScalarValues(Tail(str))
    ELSE <<str[1]>> \o ScalarValues(Tail(str))

Utf8Bytes(cp) ==
    IF cp < 128 THEN <<cp>>
    ELSE IF cp < 2048 THEN <<192 + (cp \div 64), 128 + (cp % 64)>>
    ELSE IF cp < 65536
    THEN <<224 + (cp \div 4096), 128 + ((cp \div 64) % 64), 128 + (cp % 64)>>
    ELSE <<240 + (cp \div 262144), 128 + ((cp \div 4096) % 64),
           128 + ((cp \div 64) % 64), 128 + (cp % 64)>>

\* TextEncoder.encode(str)
TextEncode(str) ==
    LET sv == ScalarValues(str)
    IN Flatten([k \in 1..Len(sv) |-> Utf8Bytes(sv[k])])

\* the bytes of the scalar values sv that fit, whole characters only, in cap bytes
RECURSIVE FitInto(_, _)
FitInto(sv, cap) ==
    IF sv = <<>> THEN <<>>
    ELSE LET by == Utf8Bytes(sv[1])
         IN IF Len(by) > cap THEN <<>>
            ELSE by \o FitInto(Tail(sv), cap - Len(by))

\* TextEncoder.encodeInto(str, dest) for a dest of cap bytes: the bytes written
\* (written is their number); a character that does not fit whole ends the write
TextEncodeInto(str, cap) == FitInto(ScalarValues(str), cap)

\* UTF-8 decoder with replacement: one U+FFFD per maximal invalid prefix
RECURSIVE Utf8Decode(_)
Utf8Decode(by) ==
    IF by = <<>> THEN <<>>
    ELSE LET c == by[1]
             n == Len(by)
             Cont(k, lo, hi) == k <= n /\ by[k] >= lo /\ by[k] <= hi
             Rest(k) == Utf8Decode(SubSeq(by, k, n))
             lo2 == IF c = 224 THEN 160 ELSE IF c = 240 THEN 144 ELSE 128
             hi2 == IF c = 237 THEN 159 ELSE IF c = 244 THEN 143 ELSE 191
         IN IF c < 128 THEN <<c>> \o Rest(2)
            ELSE IF c >= 194 /\ c <= 223
            THEN IF ~Cont(2, 128, 191) THEN <<REPLACEMENT>> \o Rest(2)
                 ELSE <<((c - 192) * 64) + (by[2] - 128)>> \o Rest(3)
            ELSE IF c >= 224 /\ c <= 239
            THEN IF ~Cont(2, lo2, hi2) THEN <<REPLACEMENT>> \o Rest(2)
                 ELSE IF ~Cont(3, 128, 191) THEN <<REPLACEMENT>> \o Rest(3)
                 ELSE <<((c - 224) * 4096) + ((by[2] - 128) * 64) + (by[3] - 128)>>
                          \o Rest(4)
            ELSE IF c >= 240 /\ c <= 244
            THEN IF ~Cont(2, lo2, hi2) THEN <<REPLACEMENT>> \o Rest(2)
                 ELSE IF ~Cont(3, 128, 191) THEN <<REPLACEMENT>> \o Rest(3)
                 ELSE IF ~Cont(4, 128, 191) THEN <<REPLACEMENT>> \o Rest(4)
                 ELSE <<((c - 240) * 262144) + ((by[2] - 128) * 4096)
                          + ((by[3] - 128) * 64) + (by[4] - 128)>> \o Rest(5)
            ELSE <<REPLACEMENT>> \o Rest(2)

CodeUnits(cp) ==
    IF cp < 65536 THEN <<cp>>
    ELSE <<55296 + ((cp - 65536) \div 1024), 56320 + ((cp - 65536) % 1024)>>

\* new TextDecoder().decode(bytes): UTF-8, a leading byte order mark is dropped
TextDecode(by) ==
    LET cps == Utf8Decode(by)
        kept == IF cps # <<>> /\ cps[1] = BOM THEN Tail(cps) ELSE cps
    IN Flatten([k \in 1..Len(kept) |-> CodeUnits(kept[k])])

\* [...str]: the code points of a string (a lone surrogate stays as it is)
RECURSIVE CodePoints(_)
CodePoints(str) ==
    IF str = <<>> THEN <<>>
    ELSE IF IsHighSurrogate(str[1]) /\ Len(str) >= 2 /\ IsLowSurrogate(str[2])
    THEN <<65536 + ((str[1] - 55296) * 1024) + (str[2] - 56320)>>
             \o CodePoints(SubSeq(str, 3, Len(str)))
    ELSE <<str[1]>> \o CodePoints(Tail(str))

(***************************************************************************)
(* Numbers: a number is the 8 bytes of its double.  Bit 1 is the sign,     *)
(* bits 2..12 the biased exponent E, bits 13..64 the fraction F.           *)
(***************************************************************************)
NumSign(num) == BytesToBits(num)[1]

NumExp(num) == FromBits(SubSeq(BytesToBits(num), 2, 12))

NumFrac(num) == SubSeq(BytesToBits(num), 13, 64)

NaN == <<127, 248, 0, 0, 0, 0, 0, 0>>

IsNaN(num) == NumExp(num) = 2047 /\ ~AllZero(NumFrac(num))

\* ToInt32(num) as 4 big-endian bytes: truncate, then modulo 2^32
ToInt32Bytes(num) ==
    LET E == NumExp(num)
        sig == <<1>> \o NumFrac(num)
        k == E - 1023
        mag == IF E = 2047 \/ E < 1023 THEN Zeros(32)
               ELSE IF k <= 52 THEN LastN(Zeros(32) \o SubSeq(sig, 1, k + 1), 32)
               ELSE IF k - 52 >= 32 THEN Zeros(32)
               ELSE LastN(sig \o Zeros(k - 52), 32)
    IN BitsToBytes(IF NumSign(num) = 1 THEN NegBits(mag) ELSE mag)

\* a variant of setInt32 that stores the least significant byte first
setInt32_littleEndian(num) ==
    LET by == ToInt32Bytes(num) IN <<by[4], by[3], by[2], by[1]>>

\* DataView.setInt32(offset, num, false): the 4 bytes stored
setInt32(num) == ToInt32Bytes(num)

\* DataView.getInt32(offset, false) of these 4 bytes, as a number
getInt32(by) ==
    LET bs == BytesToBits(by)
        neg == bs[1] = 1
        mag == IF neg THEN NegBits(bs) ELSE bs
        p == FirstOne(mag)
    IN IF p = 0 THEN Zeros(8)
       ELSE BitsToBytes(<<IF neg THEN 1 ELSE 0>> \o ToBits(1023 + (32 - p), 11)
                          \o SubSeq(mag, p + 1, 32) \o Zeros(52 - (32 - p)))

\* a variant of isInt that asks whether the number is its own 32-bit integer
isInt_int32(num) == getInt32(ToInt32Bytes(num)) = num

\* Math.round(num) === num: integers, both zeros and both infinities
isInt(num) ==
    LET E == NumExp(num)
        F == NumFrac(num)
    IN IF E = 2047 \/ E = 0 THEN AllZero(F)
       ELSE IF E >= 1075 THEN TRUE
       ELSE IF E < 1023 THEN FALSE
       ELSE AllZero(SubSeq(F, (E - 1023) + 1, 52))

\* the same 4 bytes as a signed integer of the model
Int32Value(by) ==
    LET bs == BytesToBits(by)
    IN IF bs[1] = 0 THEN FromBits(SubSeq(bs, 2, 32))
       ELSE (FromBits(SubSeq(bs, 2, 32)) - MaxInt32) - 1

\* dv.setInt32(offset, n, false) for a length n < 2^31: the 4 bytes stored
LengthBytes(n) == BitsToBytes(ToBits(n, 32))

\* round to nearest, ties to even: sig is the kept part, rest the dropped bits
RoundUp(sig, rest) ==
    /\ rest # <<>>
    /\ rest[1] = 1
    /\ (~AllZero(Tail(rest)) \/ (sig # <<>> /\ sig[Len(sig)] = 1))

\* DataView.setFloat32(offset, num, false): the nearest float32, 4 bytes
setFloat32(num) ==
    LET s == NumSign(num)
        E == NumExp(num)
        F == NumFrac(num)
        e32 == E - 896
        \* exponent field and 23 fraction bits as one 31-bit word, before rounding
        sh == 1 - e32
        x == Zeros(sh - 1) \o <<1>> \o F
        word == IF e32 >= 1 THEN ToBits(e32, 8) \o SubSeq(F, 1, 23)
                ELSE Zeros(8) \o SubSeq(x, 1, 23)
        rest == IF e32 >= 1 THEN SubSeq(F, 24, 52) ELSE SubSeq(x, 24, Len(x))
        rounded == IF RoundUp(word, rest) THEN IncBits(word) ELSE word
    IN IF E = 2047
       THEN (IF AllZero(F) THEN BitsToBytes(<<s>> \o ToBits(255, 8) \o Zeros(23))
             ELSE <<127, 192, 0, 0>>)
       ELSE IF E = 0 \/ sh > 25 THEN BitsToBytes(<<s>> \o Zeros(31))
       ELSE IF e32 >= 255 THEN BitsToBytes(<<s>> \o ToBits(255, 8) \o Zeros(23))
       ELSE BitsToBytes(<<s>> \o rounded)

\* DataView.getFloat32(offset, false) of these 4 bytes, as a number
getFloat32(by) ==
    LET bs == BytesToBits(by)
        s == bs[1]
        e32 == FromBits(SubSeq(bs, 2, 9))
        f == SubSeq(bs, 10, 32)
        p == FirstOne(f)
    IN IF e32 = 255 THEN (IF AllZero(f) THEN BitsToBytes(<<s>> \o ToBits(2047, 11) \o Zeros(52))
                          ELSE NaN)
       ELSE IF e32 = 0
       THEN (IF p = 0 THEN BitsToBytes(<<s>> \o Zeros(63))
             ELSE BitsToBytes(<<s>> \o ToBits(897 - p, 11) \o SubSeq(f, p + 1, 23)
                                \o Zeros(29 + p)))
       ELSE BitsToBytes(<<s>> \o ToBits(e32 + 896, 11) \o f \o Zeros(29))

\* DataView.setFloat64(offset, num, false): the double itself
setFloat64(num) == IF IsNaN(num) THEN NaN ELSE num

\* DataView.getFloat64(offset, false) of these 8 bytes
getFloat64(by) == IF IsNaN(by) THEN NaN ELSE by

(***************************************************************************)
(* Outcomes of a call.  kind is "return", or the class of the exception    *)
(* thrown ("OSCProtocolError", "RangeError", "AssertionError"), or         *)
(* "diverges" when the call never comes back.                              *)
(***************************************************************************)
EncReturn(by) == [kind |-> "return", packet |-> by]

EncThrow(kind) == [kind |-> kind, packet |-> <<>>]

DecReturn(a, as) == [kind |-> "return", addr |-> a, args |-> as]

DecThrow(kind) == [kind |-> kind, addr |-> <<>>, args |-> <<>>]

RECURSIVE SumSeq(_)
SumSeq(ns) == IF ns = <<>> THEN 0 ELSE Head(ns) + SumSeq(Tail(ns))

(***************************************************************************)
(* encodeOSC: pass 1 sizes the packet from the string lengths, pass 2      *)
(* writes into the pre-sized buffer.                                       *)
(***************************************************************************)
\* the type tag pass 1 assigns to an argument
encodeOSC_tag(arg, f64) ==
    IF arg.t = "bool" THEN (IF arg.v = <<1>> THEN ASCII_T ELSE ASCII_F)
    ELSE IF arg.t = "str" THEN ASCII_s
    ELSE IF arg.t = "num"
    THEN (IF isInt(arg.v) THEN ASCII_i ELSE IF f64 THEN ASCII_d ELSE ASCII_f)
    ELSE ASCII_b

\* a pass 1 that counts a blob without its padding
encodeOSC_argSize_blobUnpadded(arg, f64, strLen) ==
    LET tag == encodeOSC_tag(arg, f64)
    IN IF tag = ASCII_s THEN align4(strLen + 1)
       ELSE IF tag = ASCII_i \/ tag = ASCII_f THEN 4
       ELSE IF tag = ASCII_d THEN 8
       ELSE IF tag = ASCII_b THEN Len(arg.v) + 4
       ELSE 0

\* what pass 1 adds to packet_size for an argument; strLen is the length it
\* takes for a string
encodeOSC_argSize(arg, f64, strLen) ==
    LET tag == encodeOSC_tag(arg, f64)
    IN IF tag = ASCII_s THEN align4(strLen + 1)
       ELSE IF tag = ASCII_i \/ tag = ASCII_f THEN 4
       ELSE IF tag = ASCII_d THEN 8
       ELSE IF tag = ASCII_b THEN align4(Len(arg.v)) + 4
       ELSE 0

encodeOSC_packet_size(addr, args, options) ==
    align4(Len(addr) + 1) + align4(Len(args) + 2)
        + SumSeq([k \in 1..Len(args) |->
                     encodeOSC_argSize(args[k], options.f64, Len(args[k].v))])

\* the writer's state in pass 2: the buffer, the cursor, the exception raised
Writer(buf, off) == [packet |-> buf, offset |-> off, err |-> ""]

WriterFail(st, kind) == [st EXCEPT !.err = kind]

\* dv.setInt32 / setFloat32 / setFloat64 of by at the cursor, then offset += Len(by)
StoreField(st, by) ==
    IF st.offset < 0 \/ st.offset + Len(by) > Len(st.packet) THEN WriterFail(st, "RangeError")
    ELSE Writer(WriteAt(st.packet, st.offset, by), st.offset + Len(by))

\* case ASCII.b: the length, then packet.set(blob, offset), then the cursor
\* moves by align4(blob.length)
StoreBlob(st, blob) ==
    LET st1 == StoreField(st, LengthBytes(Len(blob)))
    IN IF st1.err # "" THEN st1
       ELSE IF st1.offset + Len(blob) > Len(st1.packet) THEN WriterFail(st1, "RangeError")
       ELSE Writer(WriteAt(st1.packet, st1.offset, blob), st1.offset + align4(Len(blob)))

\* case ASCII.s of encodeOSC: encodeInto a view that starts at the cursor
encodeOSC_storeString(st, str) ==
    IF st.offset > Len(st.packet) THEN WriterFail(st, "RangeError")
    ELSE LET w == TextEncodeInto(str, Len(st.packet) - st.offset)
         IN Writer(WriteAt(st.packet, st.offset, w), st.offset + align4(Len(w) + 1))

RECURSIVE encodeOSC_write(_, _, _, _)
encodeOSC_write(st, args, tt, k) ==
    IF k > Len(args) \/ st.err # "" THEN st
    ELSE LET arg == args[k]
             st1 == IF tt[k] = ASCII_s THEN encodeOSC_storeString(st, arg.v)
                    ELSE IF tt[k] = ASCII_i THEN StoreField(st, setInt32(arg.v))
                    ELSE IF tt[k] = ASCII_f THEN StoreField(st, setFloat32(arg.v))
                    ELSE IF tt[k] = ASCII_d THEN StoreField(st, setFloat64(arg.v))
                    ELSE IF tt[k] = ASCII_b THEN StoreBlob(st, arg.v)
                    ELSE st
         IN encodeOSC_write(st1, args, tt, k + 1)

encodeOSC(addr, args, options) ==
    LET tt == [k \in 1..Len(args) |-> encodeOSC_tag(args[k], options.f64)]
        size == encodeOSC_packet_size(addr, args, options) + options.oversize
        w == TextEncodeInto(addr, size)
        buf1 == WriteAt(Zeros(size), 0, w)
        off1 == align4(Len(w) + 1)
        \* packet[offset] = ASCII.COMMA: a store outside the array is dropped
        buf2 == IF off1 < size THEN WriteAt(buf1, off1, <<ASCII_COMMA>>) ELSE buf1
        \* packet.set(tt, offset + 1) throws when tt does not fit
        setFits == off1 + 1 + Len(tt) <= size
        st0 == IF setFits THEN Writer(WriteAt(buf2, off1 + 1, tt), align4(off1 + Len(tt) + 2))
               ELSE WriterFail(Writer(buf2, off1), "RangeError")
        st == encodeOSC_write(st0, args, tt, 1)
    IN IF st.err # "" THEN EncThrow(st.err)
       ELSE IF st.offset > size THEN EncThrow("OSCProtocolError")
       ELSE EncReturn(SubSeq(st.packet, 1, st.offset))

(***************************************************************************)
(* encodeOSC_UTF8: every text is encoded first and sized by its bytes.     *)
(***************************************************************************)
RECURSIVE encodeOSC_UTF8_write(_, _, _, _)
encodeOSC_UTF8_write(st, args, tt, k) ==
    IF k > Len(args) \/ st.err # "" THEN st
    ELSE LET arg == args[k]
             str == TextEncode(arg.v)
             st1 == IF tt[k] = ASCII_s
                    THEN (IF st.offset + Len(str) > Len(st.packet)
                          THEN WriterFail(st, "RangeError")
                          ELSE Writer(WriteAt(st.packet, st.offset, str),
                                      st.offset + align4(Len(str) + 1)))
                    ELSE IF tt[k] = ASCII_i THEN StoreField(st, setInt32(arg.v))
                    ELSE IF tt[k] = ASCII_f THEN StoreField(st, setFloat32(arg.v))
                    ELSE IF tt[k] = ASCII_d THEN StoreField(st, setFloat64(arg.v))
                    ELSE IF tt[k] = ASCII_b THEN StoreBlob(st, arg.v)
                    ELSE st
         IN encodeOSC_UTF8_write(st1, args, tt, k + 1)

encodeOSC_UTF8(addr, args, options) ==
    LET tt == [k \in 1..Len(args) |-> encodeOSC_tag(args[k], options.f64)]
        addr_enc == TextEncode(addr)
        tt_start == align4(Len(addr_enc) + 1)
        tt_end_offset == align4(tt_start + Len(tt) + 2)
        packet_size == tt_end_offset
            + SumSeq([k \in 1..Len(args) |->
                         encodeOSC_argSize(args[k], options.f64,
                                           Len(TextEncode(args[k].v)))])
        buf == WriteAt(WriteAt(WriteAt(Zeros(packet_size), 0, addr_enc),
                               tt_start, <<ASCII_COMMA>>), tt_start + 1, tt)
        st == encodeOSC_UTF8_write(Writer(buf, tt_end_offset), args, tt, 1)
    IN IF st.err # "" THEN EncThrow(st.err)
       ELSE IF st.offset # packet_size THEN EncThrow("AssertionError")
       ELSE EncReturn(SubSeq(st.packet, 1, st.offset))

(***************************************************************************)
(* encodeOSCSlow: the reference encoder.                                   *)
(***************************************************************************)
\* oscString's check: content.includes(0)
encodeOSCSlow_illegal(str) == \E k \in 1..Len(TextEncode(str)) : TextEncode(str)[k] = 0

\* oscString(str)[1]: the content and pad(content.length, 1) zero bytes
encodeOSCSlow_oscString(str) ==
    LET content == TextEncode(str)
    IN content \o Zeros(pad(Len(content), 1))

\* the [type, bytes] pair argsGen yields for an argument
encodeOSCSlow_arg(arg, f64) ==
    IF arg.t = "str" THEN <<ASCII_s, encodeOSCSlow_oscString(arg.v)>>
    ELSE IF arg.t = "bool" THEN <<IF arg.v = <<1>> THEN ASCII_T ELSE ASCII_F, <<>>>>
    ELSE IF arg.t = "num"
    THEN (IF isInt(arg.v) THEN <<ASCII_i, setInt32(arg.v)>>
          ELSE IF f64 THEN <<ASCII_d, setFloat64(arg.v)>>
          ELSE <<ASCII_f, setFloat32(arg.v)>>)
    ELSE <<ASCII_b, LengthBytes(Len(arg.v)) \o arg.v \o Zeros(pad(Len(arg.v), 0))>>

encodeOSCSlow(addr, args, opt) ==
    LET argData == [k \in 1..Len(args) |-> encodeOSCSlow_arg(args[k], opt.f64)]
        typeTag == <<ASCII_COMMA>> \o [k \in 1..Len(args) |-> argData[k][1]]
    IN IF At(addr, 0) # ASCII_SLASH THEN EncThrow("OSCProtocolError")
       ELSE IF \E k \in 1..Len(args) : args[k].t = "str" /\ encodeOSCSlow_illegal(args[k].v)
       THEN EncThrow("OSCProtocolError")
       ELSE IF encodeOSCSlow_illegal(addr) THEN EncThrow("OSCProtocolError")
       ELSE EncReturn(encodeOSCSlow_oscString(addr) \o encodeOSCSlow_oscString(typeTag)
                        \o Flatten([k \in 1..Len(args) |-> argData[k][2]]))

(***************************************************************************)
(* decodeOSC: the optimized decoder.  The packet is taken to be its own    *)
(* buffer (data.byteOffset = 0).                                           *)
(***************************************************************************)
Hole == [t |-> "empty", v |-> <<>>]

Str(v) == [t |-> "str", v |-> v]

Num(v) == [t |-> "num", v |-> v]

Bool(b) == [t |-> "bool", v |-> IF b THEN <<1>> ELSE <<0>>]

Blob(v) == [t |-> "blob", v |-> v]

\* the reader's state in the argument loop
Reader(off, as) == [offset |-> off, args |-> as, err |-> ""]

ReaderFail(st, kind) == [st EXCEPT !.err = kind]

\* a DataView read of n bytes at off is inside the packet
InView(buf, off, n) == off >= 0 /\ off + n <= Len(buf)

\* a variant of the length check that only tests the alignment
decodeOSC_lengthError_alignOnly(buf) == Len(buf) % 4 # 0

\* the two checks decodeOSC starts with: data.length % 4 !== 0, data.length < 8
decodeOSC_lengthError(buf) == Len(buf) % 4 # 0 \/ Len(buf) < 8

RECURSIVE decodeOSC_loop(_, _, _, _, _)
decodeOSC_loop(buf, st, i, ti, tt_end) ==
    IF ti >= tt_end \/ st.err # "" THEN st
    ELSE LET off == st.offset
             tag == At(buf, ti)
             Put(val, off2) == Reader(off2, [st.args EXCEPT ![i] = val])
             end == IndexOf(buf, ASCII_NULL, off)
             blobLen == Int32Value(SubSeq(buf, off + 1, off + 4))
             blobTo == IF blobLen > Len(buf) THEN off + 4 + Len(buf) ELSE off + 4 + blobLen
             st1 == IF tag = ASCII_s
                    THEN (IF off < 0 \/ end - off < 0 THEN ReaderFail(st, "RangeError")
                          ELSE Put(Str(TextDecode(SubSeq(buf, off + 1, end))),
                                   align4(end + 1)))
                    ELSE IF tag = ASCII_i
                    THEN (IF ~InView(buf, off, 4) THEN ReaderFail(st, "RangeError")
                          ELSE Put(Num(getInt32(SubSeq(buf, off + 1, off + 4))), off + 4))
                    ELSE IF tag = ASCII_b
                    THEN (IF ~InView(buf, off, 4) THEN ReaderFail(st, "RangeError")
                          ELSE Put(Blob(Slice(buf, off + 4, blobTo)),
                                   off + 4 + align4(blobLen)))
                    ELSE IF tag = ASCII_f
                    THEN (IF ~InView(buf, off, 4) THEN ReaderFail(st, "RangeError")
                          ELSE Put(Num(getFloat32(SubSeq(buf, off + 1, off + 4))), off + 4))
                    ELSE IF tag = ASCII_d
                    THEN (IF ~InView(buf, off, 8) THEN ReaderFail(st, "RangeError")
                          ELSE Put(Num(getFloat64(SubSeq(buf, off + 1, off + 8))), off + 8))
                    ELSE IF tag = ASCII_T THEN Put(Bool(TRUE), off)
                    ELSE IF tag = ASCII_F THEN Put(Bool(FALSE), off)
                    ELSE st
         IN decodeOSC_loop(buf, st1, i + 1, ti + 1, tt_end)

decodeOSC(buf) ==
    LET addr_end == IndexOf(buf, ASCII_NULL, 0)
        tt_offset == align4(addr_end + 1)
        tt_end == IndexOf(buf, ASCII_NULL, tt_offset)
        offset == align4(tt_end + 1)
        n == (tt_end - tt_offset) - 1
        st == decodeOSC_loop(buf, Reader(offset, [k \in 1..n |-> Hole]), 1,
                             tt_offset + 1, tt_end)
    IN IF decodeOSC_lengthError(buf) THEN DecThrow("OSCProtocolError")
       \* new Uint8Array(data.buffer, data.byteOffset, -1)
       ELSE IF addr_end < 0 THEN DecThrow("RangeError")
       ELSE IF At(buf, tt_offset) # ASCII_COMMA THEN DecThrow("OSCProtocolError")
       \* Array(n) with n < 0
       ELSE IF n < 0 THEN DecThrow("RangeError")
       ELSE IF st.err # "" THEN DecThrow(st.err)
       ELSE DecReturn(TextDecode(SubSeq(buf, 1, addr_end)), st.args)

(***************************************************************************)
(* decodeOSCSlow: the reference decoder.  pos is its cursor.               *)
(***************************************************************************)
\* consumeToken() where the byte read is outside the packet: undefined, which
\* a Uint8Array stores as 0
Token(buf, pos) == At(buf, pos)

\* the two checks decodeOSCSlow starts with
decodeOSCSlow_lengthError(buf) == Len(buf) % 4 # 0 \/ Len(buf) < 8

\* oscStringGen from pos: the bytes yielded and the cursor after them.  Each
\* round reads 4 tokens; a token 0 ends the loop after its round.  A round that
\* starts at or after the end reads undefined only, and so does every later
\* round: the loop never ends (out = "diverges").
RECURSIVE decodeOSCSlow_oscStringGen(_, _, _)
decodeOSCSlow_oscStringGen(buf, pos, acc) ==
    LET toks == [j \in 1..4 |-> Token(buf, pos + j - 1)]
        yielded == SelectSeq(toks, LAMBDA t : t # 0)
        out == acc \o [j \in 1..Len(yielded) |-> IF yielded[j] < 0 THEN 0 ELSE yielded[j]]
        terminated == \E j \in 1..4 : toks[j] = 0
    IN IF terminated THEN [out |-> "done", bytes |-> out, pos |-> pos + 4]
       ELSE IF pos + 4 >= Len(buf) THEN [out |-> "diverges", bytes |-> <<>>, pos |-> pos]
       ELSE decodeOSCSlow_oscStringGen(buf, pos + 4, out)

decodeOSCSlow_oscString(buf, pos) ==
    LET g == decodeOSCSlow_oscStringGen(buf, pos, <<>>)
    IN [out |-> g.out, str |-> TextDecode(g.bytes), pos |-> g.pos]

\* the state of argsGen: the cursor, the arguments yielded, how it ended
Slow(pos, as) == [pos |-> pos, args |-> as, err |-> ""]

SlowFail(st, kind) == [st EXCEPT !.err = kind]

RECURSIVE decodeOSCSlow_argsGen(_, _, _)
decodeOSCSlow_argsGen(buf, st, typeTag) ==
    IF typeTag = <<>> \/ st.err # "" THEN st
    ELSE LET pos == st.pos
             argType == Head(typeTag)
             Yield(val, pos2) == Slow(pos2, Append(st.args, val))
             str == decodeOSCSlow_oscString(buf, pos)
             size == Int32Value(SubSeq(buf, pos + 1, pos + 4))
             view == [k \in 1..size |->
                         IF Token(buf, pos + 4 + k - 1) < 0 THEN 0
                         ELSE Token(buf, pos + 4 + k - 1)]
             st1 == IF argType = ASCII_s
                    THEN (IF str.out = "diverges" THEN SlowFail(st, "diverges")
                          ELSE Yield(Str(str.str), str.pos))
                    ELSE IF argType = ASCII_i
                    THEN (IF ~InView(buf, pos, 4) THEN SlowFail(st, "RangeError")
                          ELSE Yield(Num(getInt32(SubSeq(buf, pos + 1, pos + 4))), pos + 4))
                    ELSE IF argType = ASCII_b
                    THEN (IF ~InView(buf, pos, 4) THEN SlowFail(st, "RangeError")
                          \* new Uint8Array(size) with size < 0
                          ELSE IF size < 0 THEN SlowFail(st, "RangeError")
                          ELSE Yield(Blob(view), pos + 4 + size + pad(size, 0)))
                    ELSE IF argType = ASCII_f
                    THEN (IF ~InView(buf, pos, 4) THEN SlowFail(st, "RangeError")
                          ELSE Yield(Num(getFloat32(SubSeq(buf, pos + 1, pos + 4))), pos + 4))
                    ELSE IF argType = ASCII_d
                    THEN (IF ~InView(buf, pos, 8) THEN SlowFail(st, "RangeError")
                          ELSE Yield(Num(getFloat64(SubSeq(buf, pos + 1, pos + 8))), pos + 8))
                    ELSE IF argType = ASCII_T THEN Yield(Bool(TRUE), pos)
                    ELSE IF argType = ASCII_F THEN Yield(Bool(FALSE), pos)
                    ELSE st
         IN decodeOSCSlow_argsGen(buf, st1, Tail(typeTag))

decodeOSCSlow(buf) ==
    LET a == decodeOSCSlow_oscString(buf, 0)
        tt == decodeOSCSlow_oscString(buf, a.pos)
        typeTag == CodePoints(tt.str)
        st == decodeOSCSlow_argsGen(buf, Slow(tt.pos, <<>>), Tail(typeTag))
    IN IF decodeOSCSlow_lengthError(buf) THEN DecThrow("OSCProtocolError")
       ELSE IF a.out = "diverges" THEN DecThrow("diverges")
       ELSE IF At(a.str, 0) # ASCII_SLASH THEN DecThrow("OSCProtocolError")
       ELSE IF tt.out = "diverges" THEN DecThrow("diverges")
       ELSE IF At(typeTag, 0) # ASCII_COMMA THEN DecThrow("OSCProtocolError")
       ELSE IF st.err # "" THEN DecThrow(st.err)
       ELSE DecReturn(a.str, st.args)

(***************************************************************************)
(* src/oscProtocol.ts of the earlier release: decodeOSC and encodeOSC      *)
(* written with generators (old_decodeOSC, old_encodeOSC).  The typed      *)
(* arrays Int32Array and Float32Array use the byte order of the host,      *)
(* which is little-endian on every platform of the runtime.                *)
(***************************************************************************)
Reverse(by) == [k \in 1..Len(by) |-> by[(Len(by) - k) + 1]]

\* consumeToken() that reads index n (pos after pos++): data[pos] ?? 0
old_consumeToken(buf, n) == IF n < Len(buf) THEN buf[n + 1] ELSE 0

\* oscMemcpy(view) with the next token at index n: view[size - 1] gets the
\* first token, view[0] the last
old_oscMemcpy(buf, n, size) ==
    [k \in 1..size |-> old_consumeToken(buf, n + (size - k))]

\* oscStringGen with the next token at index n: rounds of 4 tokens until a
\* round holds a 0; past the end every token is 0
RECURSIVE old_oscStringGen(_, _, _)
old_oscStringGen(buf, n, acc) ==
    LET toks == [j \in 1..4 |-> old_consumeToken(buf, (n + j) - 1)]
        out == acc \o SelectSeq(toks, LAMBDA t : t # 0)
    IN IF \E j \in 1..4 : toks[j] = 0 THEN [bytes |-> out, pos |-> n + 4]
       ELSE old_oscStringGen(buf, n + 4, out)

old_oscString(buf, n) ==
    LET g == old_oscStringGen(buf, n, <<>>)
    IN [str |-> TextDecode(g.bytes), pos |-> g.pos]

\* new Int32Array(view)[0] of the 4 bytes oscMemcpy stored
old_oscInt(buf, n) == getInt32(Reverse(old_oscMemcpy(buf, n, 4)))

old_oscFloat(buf, n) == getFloat32(Reverse(old_oscMemcpy(buf, n, 4)))

old_oscDouble(buf, n) == getFloat64(Reverse(old_oscMemcpy(buf, n, 8)))

RECURSIVE old_decodeOSC_argsGen(_, _, _)
old_decodeOSC_argsGen(buf, st, typeTag) ==
    IF typeTag = <<>> \/ st.err # "" THEN st
    ELSE LET n == st.pos
             argType == Head(typeTag)
             Yield(val, n2) == Slow(n2, Append(st.args, val))
             str == old_oscString(buf, n)
             size == Int32Value(Reverse(old_oscMemcpy(buf, n, 4)))
             st1 == IF argType = ASCII_s THEN Yield(Str(str.str), str.pos)
                    ELSE IF argType = ASCII_i THEN Yield(Num(old_oscInt(buf, n)), n + 4)
                    ELSE IF argType = ASCII_b
                    \* new Uint8Array(size) with size < 0
                    THEN (IF size < 0 THEN SlowFail(st, "RangeError")
                          ELSE Yield(Blob(old_oscMemcpy(buf, n + 4, size)),
                                     n + 4 + size + pad(size, 0)))
                    ELSE IF argType = ASCII_f THEN Yield(Num(old_oscFloat(buf, n)), n + 4)
                    ELSE IF argType = ASCII_d THEN Yield(Num(old_oscDouble(buf, n)), n + 8)
                    ELSE IF argType = ASCII_T THEN Yield(Bool(TRUE), n)
                    ELSE IF argType = ASCII_F THEN Yield(Bool(FALSE), n)
                    ELSE st
         IN old_decodeOSC_argsGen(buf, st1, Tail(typeTag))

old_decodeOSC(buf) ==
    LET a == old_oscString(buf, 0)
        tt == old_oscString(buf, a.pos)
        typeTag == CodePoints(tt.str)
        st == old_decodeOSC_argsGen(buf, Slow(tt.pos, <<>>), Tail(typeTag))
    IN IF Len(buf) % 4 # 0 THEN DecThrow("OSCProtocolError")
       ELSE IF Len(buf) < 8 THEN DecThrow("OSCProtocolError")
       ELSE IF At(a.str, 0) # ASCII_SLASH THEN DecThrow("OSCProtocolError")
       ELSE IF At(typeTag, 0) # ASCII_COMMA THEN DecThrow("OSCProtocolError")
       ELSE IF st.err # "" THEN DecThrow(st.err)
       ELSE DecReturn(a.str, st.args)

\* oscString(str) of encodeOSC: the content, a NUL and the padding
old_encodeOSC_oscString(str) ==
    LET content == TextEncode(str)
    IN content \o Zeros(pad(Len(content), 1))

\* what argsGen yields for an argument: a sequence with one [type, bytes]
\* pair, or no pair at all for a Uint8Array, which no branch handles
old_encodeOSC_arg(arg) ==
    IF arg.t = "str" THEN <<<<ASCII_s, old_encodeOSC_oscString(arg.v)>>>>
    ELSE IF arg.t = "bool"
    THEN <<<<IF arg.v = <<1>> THEN ASCII_T ELSE ASCII_F, <<>>>>>>
    ELSE IF arg.t = "num"
    \* oscInt, oscFloat: the value stored least significant byte first by the
    \* typed array, then reverse()
    THEN (IF isInt(arg.v) THEN <<<<ASCII_i, Reverse(Reverse(ToInt32Bytes(arg.v)))>>>>
          ELSE <<<<ASCII_f, Reverse(Reverse(setFloat32(arg.v)))>>>>)
    ELSE <<>>

old_encodeOSC(addr, args) ==
    LET argData == Flatten([k \in 1..Len(args) |-> old_encodeOSC_arg(args[k])])
        typeTag == <<ASCII_COMMA>> \o [k \in 1..Len(argData) |-> argData[k][1]]
    IN IF At(addr, 0) # ASCII_SLASH THEN EncThrow("OSCProtocolError")
       ELSE IF \E k \in 1..Len(args) : args[k].t = "str" /\ encodeOSCSlow_illegal(args[k].v)
       THEN EncThrow("OSCProtocolError")
       ELSE IF encodeOSCSlow_illegal(addr) THEN EncThrow("OSCProtocolError")
       ELSE EncReturn(old_encodeOSC_oscString(addr) \o old_encodeOSC_oscString(typeTag)
                        \o Flatten([k \in 1..Len(argData) |-> argData[k][2]]))

(***************************************************************************)
(* mod.ts: TCPOSCAdapter.  SLIPDecoder and encodeSLIP come from the         *)
(* package @deno-plc/slip: a frame is kept as the packet it carries, and    *)
(* the decoder as the packets it hands to the loop of recv.                 *)
(***************************************************************************)
encodeSLIP(packet) == [slip |-> packet]

\* the arguments of a call of on_packet
on_packet(addr, args) == [addr |-> addr, args |-> args]

\* the loop of recv: the packets taken from the decoder, the calls of
\* on_packet, and the error that ended the loop
RecvState(ys, ds, err) == [taken |-> ys, delivered |-> ds, err |-> err]

\* the packet of the loop at which decodeOSC first throws, or the number of
\* packets plus one
FirstThrow(results) ==
    LET thrown == {k \in 1..Len(results) : results[k].kind # "return"}
    IN IF thrown = {} THEN Len(results) + 1
       ELSE CHOOSE k \in thrown : \A j \in thrown : k <= j

\* a loop that hands the newest packet over first
recv_loop_newestFirst(packets) ==
    LET Loop(results) ==
            LET f == FirstThrow(results)
            IN RecvState(SubSeq(packets, 1, IF f > Len(packets) THEN Len(packets) ELSE f),
                         [k \in 1..(f - 1) |->
                             on_packet(results[f - k].addr, results[f - k].args)],
                         IF f > Len(packets) THEN "" ELSE results[f].kind)
    IN CHOOSE st \in {Loop(results) :
                        results \in {[k \in 1..Len(packets) |-> decodeOSC(packets[k])]}} : TRUE

\* for (const packet of decode(data)) { decodeOSC(packet); on_packet(...) }:
\* an error of decodeOSC leaves the loop and recv.  results holds what
\* decodeOSC does on each packet, f is the packet the loop ends at.
recv_loop(packets) ==
    LET Loop(results) ==
            LET f == FirstThrow(results)
            IN RecvState(SubSeq(packets, 1, IF f > Len(packets) THEN Len(packets) ELSE f),
                         [k \in 1..(f - 1) |->
                             on_packet(results[k].addr, results[k].args)],
                         IF f > Len(packets) THEN "" ELSE results[f].kind)
    IN CHOOSE st \in {Loop(results) :
                        results \in {[k \in 1..Len(packets) |-> decodeOSC(packets[k])]}} : TRUE

\* send(addr, args): the calls of #send_socket it makes
send(addr, args) ==
    LET r == encodeOSC(addr, args, [oversize |-> 0, f64 |-> FALSE])
    IN IF r.kind = "return" THEN <<encodeSLIP(r.packet)>> ELSE <<>>

(***************************************************************************)
(* The inputs the calls are made with.                                     *)
(***************************************************************************)
MaxArgs == 2
MaxBlocks == 4
MaxDeclared == 8

SeqsUpTo(S, n) == UNION {[1..k -> S] : k \in 0..n}

\* "/", "/a", "/aaa", "/" and U+20AC (3 bytes of UTF-8), "", "a", "/", NUL, "a",
\* "/foo/bar"
AddrPool ==
    { <<47>>, <<47, 97>>, <<47, 97, 97, 97>>, <<47, 8364>>,
      <<>>, <<97>>, <<47, 0, 97>>, <<47, 102, 111, 111, 47, 98, 97, 114>> }

\* "", "a", "aa", "aaa", one to three U+20AC, "a", NUL, "a", U+FEFF (the byte
\* order mark) and "a", U+D800 (a lone surrogate)
StrPool ==
    { <<>>, <<97>>, <<97, 97>>, <<97, 97, 97>>,
      <<8364>>, <<8364, 8364>>, <<8364, 8364, 8364>>,
      <<97, 0, 97>>, <<65279, 97>>, <<55296>> }

\* 5, -1, 2.5, 0.1, 2^31
NumPool ==
    { <<64, 20, 0, 0, 0, 0, 0, 0>>, <<191, 240, 0, 0, 0, 0, 0, 0>>,
      <<64, 4, 0, 0, 0, 0, 0, 0>>, <<63, 185, 153, 153, 153, 153, 153, 154>>,
      <<65, 224, 0, 0, 0, 0, 0, 0>>, <<128, 0, 0, 0, 0, 0, 0, 0>> }

BlobPool == {<<>>, <<1>>, <<1, 2, 3, 4, 5>>}

ArgPool ==
    {Str(v) : v \in StrPool} \cup {Num(v) : v \in NumPool}
        \cup {Bool(TRUE), Bool(FALSE)} \cup {Blob(v) : v \in BlobPool}

\* "a", two U+20AC, "a" NUL "a", 5, 0.1, true, false, a blob of 5 bytes
CoreArgPool ==
    { Str(<<97>>), Str(<<8364, 8364>>), Str(<<97, 0, 97>>),
      Num(<<64, 20, 0, 0, 0, 0, 0, 0>>),
      Num(<<63, 185, 153, 153, 153, 153, 153, 154>>), Bool(TRUE), Bool(FALSE),
      Blob(<<1, 2, 3, 4, 5>>) }

\* no argument, every single argument, and the lists of at most MaxArgs
\* arguments of the core pool
ArgsPool == SeqsUpTo(ArgPool, 1) \cup SeqsUpTo(CoreArgPool, MaxArgs)

OptionsPool == [oversize : {0, 2, 4}, f64 : BOOLEAN]

\* 4-byte blocks that packets from the network are made of
\* "/a", "/aaa", zeros, ",", ",s", ",iT", ",b", ",x", 5, -1
BlockPool ==
    { <<47, 97, 0, 0>>, <<47, 97, 97, 97>>, <<0, 0, 0, 0>>,
      <<44, 0, 0, 0>>, <<44, 115, 0, 0>>, <<44, 105, 84, 0>>, <<44, 98, 0, 0>>,
      <<44, 120, 0, 0>>, <<0, 0, 0, 5>>, <<255, 255, 255, 255>> }

\* the start of a block, for packets whose length is no multiple of 4
FragmentPool == {<<0>>, <<47, 0>>, <<44, 0, 0>>}

\* the block after ",b" is where a blob declares its length: the packets of the
\* model declare at most MaxDeclared bytes
SmallLength(bs) ==
    \A k \in 1..(Len(bs) - 1) :
        bs[k] = <<44, 98, 0, 0>> => Int32Value(bs[k + 1]) <= MaxDeclared

PacketPool ==
    {Flatten(bs) : bs \in {b \in SeqsUpTo(BlockPool, MaxBlocks) : SmallLength(b)}}
        \cup {Flatten(bs) \o fr : bs \in SeqsUpTo(BlockPool, 2), fr \in FragmentPool}

(***************************************************************************)
(* The calls.  The codec keeps no state between calls: a behaviour is one  *)
(* use of it.  Either an encoder is called with an address, arguments and  *)
(* options, and the packet it returns is handed to a decoder; or a packet  *)
(* that came from the network is handed to a decoder.                      *)
(***************************************************************************)
NoEnc == [kind |-> "none", packet |-> <<>>]

NoDec == [kind |-> "none", addr |-> <<>>, args |-> <<>>]

NoOptions == [oversize |-> 0, f64 |-> FALSE]

\* no call of align4 or pad
NoHelper == hfn = "none" /\ hin = <<>> /\ hout = 0

\* no adapter
NoAdapter ==
    /\ inbound = <<>>
    /\ taken = <<>>
    /\ delivered = <<>>
    /\ recvThrown = <<>>
    /\ outbound = <<>>
    /\ sendCalls = <<>>
    /\ socket = <<>>

\* the caller holds the inputs of an encoder
InitEncode ==
    /\ pc = "call"
    /\ efn = "none"
    /\ inAddr \in AddrPool
    /\ inArgs \in ArgsPool
    /\ inOptions \in OptionsPool
    /\ enc = NoEnc
    /\ wire = <<>>
    /\ dfn = "none"
    /\ dec = NoDec
    /\ NoHelper
    /\ NoAdapter

\* a packet has come from the network
InitReceive ==
    /\ pc = "packet"
    /\ efn = "none"
    /\ inAddr = <<>>
    /\ inArgs = <<>>
    /\ inOptions = NoOptions
    /\ enc = NoEnc
    /\ wire \in PacketPool
    /\ dfn = "none"
    /\ dec = NoDec
    /\ NoHelper
    /\ NoAdapter

\* no call of the codec
NoCodec ==
    /\ efn = "none"
    /\ inAddr = <<>>
    /\ inArgs = <<>>
    /\ inOptions = NoOptions
    /\ enc = NoEnc
    /\ wire = <<>>
    /\ dfn = "none"
    /\ dec = NoDec

\* the arguments of align4: the small lengths, and the integers next to the
\* largest 32-bit integer
MaxLength == 40
MaxNear == 8

Align4Pool == (0..MaxLength) \cup {MaxInt32 - k : k \in 0..MaxNear}

\* the arguments of pad: a content length and a minimal padding
MaxMinPad == 5

PadPool == (0..MaxLength) \X (0..MaxMinPad)

\* a caller holds the argument of align4 or the arguments of pad
InitHelper ==
    /\ pc = "helper"
    /\ NoCodec
    /\ hfn = "none"
    /\ hin \in {<<x>> : x \in Align4Pool} \cup PadPool
    /\ hout = 0
    /\ NoAdapter

\* packets that reach an adapter: "/a" without arguments, "/a" with 5 and
\* true, 4 bytes only, "/a" without a type tag string
AdapterPackets ==
    << <<47, 97, 0, 0, 44, 0, 0, 0>>,
       <<47, 97, 0, 0, 44, 105, 84, 0, 0, 0, 0, 5>>,
       <<47, 97, 0, 0>>,
       <<47, 97, 0, 0, 0, 0, 0, 0>> >>

\* a chunk of the inbound stream completes no packet, one or two
ChunkPool ==
    { <<>>,
      <<AdapterPackets[1]>>,
      <<AdapterPackets[3]>>,
      <<AdapterPackets[1], AdapterPackets[2]>>,
      <<AdapterPackets[1], AdapterPackets[1]>>,
      <<AdapterPackets[2], AdapterPackets[4]>>,
      <<AdapterPackets[3], AdapterPackets[1]>> }

MaxChunks == 2

\* the arguments of send: "/a" and no arguments, "/a" and [5, true], and "/"
\* with U+20AC, on which encodeOSC throws
SendPool ==
    { [addr |-> <<47, 97>>, args |-> <<>>],
      [addr |-> <<47, 97>>,
       args |-> <<Num(<<64, 20, 0, 0, 0, 0, 0, 0>>), Bool(TRUE)>>],
      [addr |-> <<47, 8364>>, args |-> <<>>] }

MaxSends == 2

\* constructor of TCPOSCAdapter: nothing received, nothing sent
InitAdapter ==
    /\ pc = "adapter"
    /\ NoCodec
    /\ NoHelper
    /\ inbound \in SeqsUpTo(ChunkPool, MaxChunks)
    /\ taken = <<>>
    /\ delivered = <<>>
    /\ recvThrown = <<>>
    /\ outbound \in SeqsUpTo(SendPool, MaxSends)
    /\ sendCalls = <<>>
    /\ socket = <<>>

Init == InitEncode \/ InitReceive \/ InitHelper \/ InitAdapter

Encoded(name, res) ==
    /\ pc' = IF res.kind = "return" THEN "packet" ELSE "thrown"
    /\ efn' = name
    /\ enc' = res
    /\ wire' = res.packet
    /\ UNCHANGED <<inAddr, inArgs, inOptions, dfn, dec>>
    /\ UNCHANGED <<helperVars, adapterVars>>

CallEncodeOSC ==
    /\ pc = "call"
    /\ Encoded("encodeOSC", encodeOSC(inAddr, inArgs, inOptions))

\* oversize is an option of encodeOSC alone
CallEncodeOSC_UTF8 ==
    /\ pc = "call"
    /\ inOptions.oversize = 0
    /\ Encoded("encodeOSC_UTF8", encodeOSC_UTF8(inAddr, inArgs, inOptions))

CallEncodeOSCSlow ==
    /\ pc = "call"
    /\ inOptions.oversize = 0
    /\ Encoded("encodeOSCSlow", encodeOSCSlow(inAddr, inArgs, inOptions))

Decoded(name, res) ==
    /\ pc' = "decoded"
    /\ dfn' = name
    /\ dec' = res
    /\ UNCHANGED <<efn, inAddr, inArgs, inOptions, enc, wire>>
    /\ UNCHANGED <<helperVars, adapterVars>>

CallDecodeOSC ==
    /\ pc = "packet"
    /\ Decoded("decodeOSC", decodeOSC(wire))

CallDecodeOSCSlow ==
    /\ pc = "packet"
    /\ Decoded("decodeOSCSlow", decodeOSCSlow(wire))

\* encodeOSC of the earlier release takes no options
CallOldEncodeOSC ==
    /\ pc = "call"
    /\ inOptions = NoOptions
    /\ Encoded("old_encodeOSC", old_encodeOSC(inAddr, inArgs))

CallOldDecodeOSC ==
    /\ pc = "packet"
    /\ Decoded("old_decodeOSC", old_decodeOSC(wire))

CallAlign4 ==
    /\ pc = "helper"
    /\ Len(hin) = 1
    /\ pc' = "computed"
    /\ hfn' = "align4"
    /\ hout' = align4(hin[1])
    /\ UNCHANGED <<hin, codecVars, adapterVars>>

CallPad ==
    /\ pc = "helper"
    /\ Len(hin) = 2
    /\ pc' = "computed"
    /\ hfn' = "pad"
    /\ hout' = pad(hin[1], hin[2])
    /\ UNCHANGED <<hin, codecVars, adapterVars>>

\* recv(data): inbound packets are decoded and handed to on_packet
Recv ==
    /\ pc = "adapter"
    /\ inbound # <<>>
    /\ \E st \in {recv_loop(Head(inbound))} :
          /\ inbound' = Tail(inbound)
          /\ taken' = taken \o st.taken
          /\ delivered' = delivered \o st.delivered
          /\ recvThrown' = IF st.err = "" THEN recvThrown
                           ELSE Append(recvThrown, st.err)
    /\ UNCHANGED <<pc, codecVars, helperVars, outbound, sendCalls, socket>>

\* send(addr, args)
Send ==
    /\ pc = "adapter"
    /\ outbound # <<>>
    /\ outbound' = Tail(outbound)
    /\ sendCalls' = Append(sendCalls, Head(outbound))
    /\ socket' = socket \o send(Head(outbound).addr, Head(outbound).args)
    /\ UNCHANGED <<pc, codecVars, helperVars, inbound, taken, delivered, recvThrown>>

NextEncode == CallEncodeOSC \/ CallEncodeOSC_UTF8 \/ CallEncodeOSCSlow

NextDecode == CallDecodeOSC \/ CallDecodeOSCSlow

NextHelper == CallAlign4 \/ CallPad

NextCodec == NextEncode \/ NextDecode

NextOld == CallOldEncodeOSC \/ CallOldDecodeOSC

NextAdapter == Recv \/ Send

Next == NextCodec \/ NextOld \/ NextHelper \/ NextAdapter

Spec == Init /\ [][Next]_vars

\* the codec: an encoder and then a decoder, or a decoder on a packet from the
\* network
SpecCodec == (InitEncode \/ InitReceive) /\ [][NextCodec]_vars

\* the codec of the earlier release: its encoder and then its decoder, or its
\* decoder on a packet from the network
SpecOld == (InitEncode \/ InitReceive) /\ [][NextOld]_vars

\* a TCPOSCAdapter that receives chunks and is asked to send
SpecAdapter == InitAdapter /\ [][NextAdapter]_vars

\* align4 and pad
SpecHelper == InitHelper /\ [][NextHelper]_vars

\* the encoders alone
SpecEncode == InitEncode /\ [][NextEncode]_vars

\* the decoders on packets from the network
SpecReceive == InitReceive /\ [][NextDecode]_vars

\* an encoder, then a decoder on its packet
SpecRoundTrip == InitEncode /\ [][NextCodec]_vars

(***************************************************************************)
(* Vocabulary of the properties.                                           *)
(***************************************************************************)
StartsWithSlash(str) == At(str, 0) = ASCII_SLASH

HasNul(str) == \E k \in 1..Len(str) : str[k] = ASCII_NULL

IsAscii(str) == \A k \in 1..Len(str) : str[k] < 128

\* no unpaired surrogate code unit
WellFormed(str) ==
    \A k \in 1..Len(CodePoints(str)) :
        ~IsHighSurrogate(CodePoints(str)[k]) /\ ~IsLowSurrogate(CodePoints(str)[k])

\* the address and the string arguments of a call
Texts(a, as) == {a} \cup {as[k].v : k \in {j \in 1..Len(as) : as[j].t = "str"}}

Numbers(as) == {as[k].v : k \in {j \in 1..Len(as) : as[j].t = "num"}}

MinInt32Num == <<193, 224, 0, 0, 0, 0, 0, 0>>

\* an integer of [-2^31, 2^31) other than -0
IsInt32Num(num) ==
    /\ isInt(num)
    /\ NumExp(num) # 2047
    /\ (NumExp(num) = 0 => NumSign(num) = 0)
    /\ (NumExp(num) - 1023 < 31 \/ num = MinInt32Num)

\* a non-integer that a normal float32 holds exactly
IsFloat32Num(num) ==
    /\ ~isInt(num)
    /\ NumExp(num) - 896 >= 1
    /\ NumExp(num) - 896 <= 254
    /\ AllZero(SubSeq(NumFrac(num), 24, 52))

\* an encoder has been called: enc holds its outcome
EncoderCalled == efn # "none"

DefaultOptions == inOptions = [oversize |-> 0, f64 |-> FALSE]

\* the decoder that was called is the counterpart of the encoder that was called
Pair(e, d) == pc = "decoded" /\ efn = e /\ dfn = d

(***************************************************************************)
(* C1: round trip of the current codecs.                                   *)
(***************************************************************************)
C1_Codec == efn \in {"encodeOSC", "encodeOSCSlow"} /\ DefaultOptions

C1_Decoded ==
    /\ DefaultOptions
    /\ Pair("encodeOSC", "decodeOSC") \/ Pair("encodeOSCSlow", "decodeOSCSlow")

\* the inputs of the statement: an address that starts with '/', strings without NUL
C1_Inputs ==
    /\ StartsWithSlash(inAddr)
    /\ \A t \in Texts(inAddr, inArgs) \ {inAddr} : ~HasNul(t)

\* C1 as stated: for every address that starts with '/' and every argument
\* list of strings without NUL, numbers, booleans and blobs, encodeOSC and
\* encodeOSCSlow return a packet, and decoding it with the counterpart
\* (decodeOSC, decodeOSCSlow) returns the same address and the same arguments.
C1_RoundTrip ==
    /\ (EncoderCalled /\ C1_Codec /\ C1_Inputs => enc.kind = "return")
    /\ (C1_Decoded /\ C1_Inputs => dec = DecReturn(inAddr, inArgs))

\* the inputs that do round-trip: texts without NUL, all ASCII for
\* encodeOSC and free of unpaired surrogates and of a leading U+FEFF for
\* encodeOSCSlow; numbers that are integers of [-2^31, 2^31) other than -0
\* or non-integers a float32 holds exactly
C1_AmendedInputs ==
    /\ StartsWithSlash(inAddr)
    /\ \A t \in Texts(inAddr, inArgs) :
          /\ ~HasNul(t)
          /\ (efn = "encodeOSC" => IsAscii(t))
          /\ (efn = "encodeOSCSlow" => WellFormed(t) /\ At(t, 0) # BOM)
    /\ \A n \in Numbers(inArgs) : IsInt32Num(n) \/ IsFloat32Num(n)

\* C1, amended: for the inputs above, encodeOSC and encodeOSCSlow return a
\* packet, and decoding it with the counterpart returns the same address and
\* the same arguments.
C1_RoundTripAmended ==
    /\ (EncoderCalled /\ C1_Codec /\ C1_AmendedInputs => enc.kind = "return")
    /\ (C1_Decoded /\ C1_AmendedInputs => dec = DecReturn(inAddr, inArgs))

\* a round trip through the slow codec of multi-byte text next to a number
C1_Witness ==
    /\ C1_Decoded
    /\ efn = "encodeOSCSlow"
    /\ C1_AmendedInputs
    /\ \E t \in Texts(inAddr, inArgs) : ~IsAscii(t)
    /\ Numbers(inArgs) # {}
    /\ dec = DecReturn(inAddr, inArgs)

(***************************************************************************)
(* C2: the fast encoders agree with encodeOSCSlow.                         *)
(***************************************************************************)
\* the inputs of the statement: valid for encodeOSCSlow, ASCII-only for encodeOSC
C2_Inputs ==
    /\ StartsWithSlash(inAddr)
    /\ \A t \in Texts(inAddr, inArgs) : ~HasNul(t) /\ (efn = "encodeOSC" => IsAscii(t))

\* C2: for every valid address and argument list, encodeOSC (text all ASCII)
\* and encodeOSC_UTF8 (any text) return exactly the bytes encodeOSCSlow
\* returns, with f64 unset and with f64 set.
C2_EncodersAgree ==
    EncoderCalled /\ efn \in {"encodeOSC", "encodeOSC_UTF8"} /\ C2_Inputs
        => /\ enc.kind = "return"
           /\ enc = encodeOSCSlow(inAddr, inArgs, inOptions)

\* encodeOSC_UTF8 has encoded multi-byte text and a 64-bit float
C2_Witness ==
    /\ EncoderCalled
    /\ efn = "encodeOSC_UTF8"
    /\ C2_Inputs
    /\ inOptions.f64
    /\ \E t \in Texts(inAddr, inArgs) : ~IsAscii(t)
    /\ \E n \in Numbers(inArgs) : ~isInt(n)
    /\ enc.kind = "return"

(***************************************************************************)
(* C3: the decoders agree on legal packets.                                *)
(***************************************************************************)
\* the offset after the NUL-terminated, zero-padded string field that starts
\* at offset off of packet p, or -1 when there is no such field
FieldEnd(p, off) ==
    LET e == IndexOf(p, ASCII_NULL, off)
    IN IF off >= Len(p) \/ e < 0 THEN 0 - 1
       ELSE IF align4(e + 1) <= Len(p) /\ AllZero(SubSeq(p, e + 1, align4(e + 1)))
            THEN align4(e + 1)
            ELSE 0 - 1

\* every payload announced by the type tags is completely inside the packet
RECURSIVE PayloadsComplete(_, _, _)
PayloadsComplete(p, tags, off) ==
    IF tags = <<>> THEN TRUE
    ELSE LET t == Head(tags)
             n == Int32Value(SubSeq(p, off + 1, off + 4))
         IN IF t = ASCII_s
            THEN FieldEnd(p, off) >= 0 /\ PayloadsComplete(p, Tail(tags), FieldEnd(p, off))
            ELSE IF t = ASCII_i \/ t = ASCII_f
            THEN off + 4 <= Len(p) /\ PayloadsComplete(p, Tail(tags), off + 4)
            ELSE IF t = ASCII_d
            THEN off + 8 <= Len(p) /\ PayloadsComplete(p, Tail(tags), off + 8)
            ELSE IF t = ASCII_b
            THEN /\ off + 4 <= Len(p)
                 /\ n >= 0
                 /\ off + 4 + align4(n) <= Len(p)
                 /\ AllZero(SubSeq(p, off + 4 + n + 1, off + 4 + align4(n)))
                 /\ PayloadsComplete(p, Tail(tags), off + 4 + align4(n))
            ELSE PayloadsComplete(p, Tail(tags), off)

\* a legal packet: the length is a multiple of 4 and at least 8, the address
\* field and the type tag field are NUL-terminated and zero-padded, the address
\* starts with '/', the type tag with ',', and the payloads are complete
LegalPacket(p) ==
    LET tt_offset == FieldEnd(p, 0)
        tt_end == IndexOf(p, ASCII_NULL, tt_offset)
    IN /\ Len(p) % 4 = 0
       /\ Len(p) >= 8
       /\ At(p, 0) = ASCII_SLASH
       /\ tt_offset >= 0
       /\ At(p, tt_offset) = ASCII_COMMA
       /\ FieldEnd(p, tt_offset) >= 0
       /\ PayloadsComplete(p, SubSeq(p, tt_offset + 2, tt_end), FieldEnd(p, tt_offset))

\* C3: on every legal packet decodeOSC returns the address and the arguments
\* that decodeOSCSlow returns.
C3_DecodersAgree ==
    pc = "decoded" /\ dfn = "decodeOSC" /\ LegalPacket(wire)
        => dec.kind = "return" /\ dec = decodeOSCSlow(wire)

(***************************************************************************)
(* C4: addresses that do not start with '/' are rejected.                  *)
(***************************************************************************)
\* the text of the address field of p (the bytes before the first NUL)
AddressField(p) == TextDecode(SubSeq(p, 1, IndexOf(p, ASCII_NULL, 0)))

\* C4: each encoder throws OSCProtocolError when the address does not start
\* with '/', and each decoder throws OSCProtocolError when the address it
\* decodes does not start with '/'.
C4_AddressValidated ==
    /\ (EncoderCalled /\ ~StartsWithSlash(inAddr) => enc.kind = "OSCProtocolError")
    /\ (pc = "decoded" /\ IndexOf(wire, ASCII_NULL, 0) >= 0
            /\ ~StartsWithSlash(AddressField(wire))
          => dec.kind = "OSCProtocolError")

(***************************************************************************)
(* C5: text with an embedded NUL is rejected.                              *)
(***************************************************************************)
\* C5: each encoder throws OSCProtocolError when the address or a string
\* argument contains a NUL character.  Stated for addresses that start with
\* '/', so that the address check of C4 plays no part.
C5_NulRejected ==
    EncoderCalled /\ StartsWithSlash(inAddr)
        /\ (\E t \in Texts(inAddr, inArgs) : HasNul(t))
      => enc.kind = "OSCProtocolError"

(***************************************************************************)
(* C6: encodeOSC does not truncate text silently.                          *)
(***************************************************************************)
\* the packet that holds every field completely: the whole UTF-8 encoding of
\* each text, NUL-terminated and zero-padded, in the layout of encodeOSCSlow
CompleteLayout(a, as, f64) ==
    LET argData == [k \in 1..Len(as) |-> encodeOSCSlow_arg(as[k], f64)]
    IN encodeOSCSlow_oscString(a)
         \o encodeOSCSlow_oscString(<<ASCII_COMMA>> \o [k \in 1..Len(as) |-> argData[k][1]])
         \o Flatten([k \in 1..Len(as) |-> argData[k][2]])

\* C6: for every input and every oversize, encodeOSC either throws
\* OSCProtocolError or returns a packet whose address field and string
\* fields hold the complete UTF-8 encoding of the input text.  Stated for
\* addresses that start with '/' and text without NUL, so that the checks of
\* C4 and C5 play no part.
C6_NoSilentTruncation ==
    EncoderCalled /\ efn = "encodeOSC" /\ StartsWithSlash(inAddr)
        /\ (\A t \in Texts(inAddr, inArgs) : ~HasNul(t))
        => \/ enc.kind = "OSCProtocolError"
           \/ enc.kind = "return"
                /\ enc.packet = CompleteLayout(inAddr, inArgs, inOptions.f64)

(***************************************************************************)
(* C7: encodeOSC rejects multi-byte text.                                  *)
(***************************************************************************)
\* C7: encodeOSC called without oversize throws OSCProtocolError whenever
\* the address or a string argument has a character of more than one byte.
\* Stated for addresses that start with '/' and text without NUL, so that the
\* checks of C4 and C5 play no part.
C7_MultiByteRejected ==
    EncoderCalled /\ efn = "encodeOSC" /\ inOptions.oversize = 0
        /\ StartsWithSlash(inAddr)
        /\ (\A t \in Texts(inAddr, inArgs) : ~HasNul(t))
        /\ (\E t \in Texts(inAddr, inArgs) : ~IsAscii(t))
      => enc.kind = "OSCProtocolError"

(***************************************************************************)
(* C8: packets of a malformed length are rejected.                         *)
(***************************************************************************)
\* C8: decodeOSC and decodeOSCSlow throw OSCProtocolError for every packet
\* whose length is not a multiple of 4 or is less than 8.
C8_MalformedLength ==
    pc = "decoded" /\ (Len(wire) % 4 # 0 \/ Len(wire) < 8)
        => dec = DecThrow("OSCProtocolError")

\* decodeOSC has rejected a packet of 4 bytes, which is aligned but too short
C8_Witness ==
    /\ pc = "decoded"
    /\ dfn = "decodeOSC"
    /\ Len(wire) = 4
    /\ dec = DecThrow("OSCProtocolError")

(***************************************************************************)
(* C9: a missing or malformed type tag is rejected.                        *)
(***************************************************************************)
\* a packet of a good length with a well-formed address whose type tag field
\* is absent or does not start with ','
C9_BadTypeTag(p) ==
    /\ Len(p) % 4 = 0
    /\ Len(p) >= 8
    /\ At(p, 0) = ASCII_SLASH
    /\ FieldEnd(p, 0) >= 0
    /\ At(p, FieldEnd(p, 0)) # ASCII_COMMA

\* C9: on a packet of a good length with a well-formed address, both decoders
\* throw OSCProtocolError when the type tag field is absent because the
\* packet ends after the address, or when its first byte is not ','.
C9_TypeTagRejected ==
    pc = "decoded" /\ C9_BadTypeTag(wire) => dec.kind = "OSCProtocolError"

(***************************************************************************)
(* C10: decoding terminates.                                               *)
(***************************************************************************)
\* C10: decodeOSC and decodeOSCSlow terminate on every input, by returning or
\* by throwing, packets without NUL terminators included.
C10_Terminates == pc = "decoded" => dec.kind # "diverges"

(***************************************************************************)
(* C11: a single kind of error.                                            *)
(***************************************************************************)
\* C11: every call of an encoder or a decoder that fails, fails with an
\* OSCProtocolError; no call fails with an error of another kind.  A call
\* that does not terminate is left to C10, and the encoders are looked at on
\* addresses that start with '/' and text without NUL (C4, C5).
C11_SingleErrorKind ==
    /\ (EncoderCalled /\ StartsWithSlash(inAddr)
            /\ (\A t \in Texts(inAddr, inArgs) : ~HasNul(t))
            /\ enc.kind # "return"
          => enc.kind = "OSCProtocolError")
    /\ (pc = "decoded" /\ dec.kind \notin {"return", "diverges"}
          => dec.kind = "OSCProtocolError")

(***************************************************************************)
(* C12: the packet of ("/foo/bar", [5, true]).                             *)
(***************************************************************************)
FooBar == <<47, 102, 111, 111, 47, 98, 97, 114>>

C12_Args == <<Num(<<64, 20, 0, 0, 0, 0, 0, 0>>), Bool(TRUE)>>

\* the packet as stated: "/foo/bar" and four NUL, ",iT" NUL padded to 8 bytes,
\* 00 00 00 05
C12_StatedPacket ==
    FooBar \o <<0, 0, 0, 0>> \o <<44, 105, 84, 0, 0, 0, 0, 0>> \o <<0, 0, 0, 5>>

\* the packet with a type tag field of the 4 bytes ",iT" NUL
C12_Packet == FooBar \o <<0, 0, 0, 0>> \o <<44, 105, 84, 0>> \o <<0, 0, 0, 5>>

C12_Encoded ==
    /\ EncoderCalled
    /\ efn \in {"encodeOSC", "encodeOSCSlow"}
    /\ inAddr = FooBar
    /\ inArgs = C12_Args

\* C12 as stated: encodeOSC and encodeOSCSlow of ("/foo/bar", [5, true])
\* return the address and four NUL, the type tag field ",iT" NUL padded to 8
\* bytes, then 00 00 00 05; decoding that packet returns ("/foo/bar", [5, true]).
C12_ConcreteLayout ==
    /\ (C12_Encoded => enc = EncReturn(C12_StatedPacket))
    /\ (pc = "decoded" /\ wire = C12_StatedPacket => dec = DecReturn(FooBar, C12_Args))

\* C12, amended: encodeOSC and encodeOSCSlow of ("/foo/bar", [5, true]) return
\* the 20 bytes made of the address and four NUL, the type tag field ",iT" NUL
\* (4 bytes, no further padding) and 00 00 00 05, with no bytes for true;
\* decodeOSC and decodeOSCSlow of that packet return ("/foo/bar", [5, true]).
C12_ConcreteLayoutAmended ==
    /\ (C12_Encoded => enc = EncReturn(C12_Packet))
    /\ (pc = "decoded" /\ wire = C12_Packet => dec = DecReturn(FooBar, C12_Args))

\* decodeOSC has decoded the packet encodeOSC made of ("/foo/bar", [5, true])
C12_Witness ==
    /\ Pair("encodeOSC", "decodeOSC")
    /\ C12_Encoded
    /\ wire = C12_Packet
    /\ dec.kind = "return"

(***************************************************************************)
(* C13: the classification of numbers.                                     *)
(***************************************************************************)
\* the finite number has a fractional part: it is not zero and lies
\* strictly between -1 and 1, or a fraction bit below the binary point is set
HasFraction(num) ==
    LET E == NumExp(num)
    IN IF E < 1023 THEN E # 0 \/ ~AllZero(NumFrac(num))
       ELSE \E k \in ((E - 1023) + 1)..52 : NumFrac(num)[k] = 1

NumTag(num, f64) ==
    IF ~HasFraction(num) THEN ASCII_i ELSE IF f64 THEN ASCII_d ELSE ASCII_f

\* the bytes an argument takes after the type tags
PayloadSize(arg, f64) ==
    IF arg.t = "num" THEN (IF NumTag(arg.v, f64) = ASCII_d THEN 8 ELSE 4)
    ELSE IF arg.t = "str" THEN ((Len(TextEncode(arg.v)) \div 4) + 1) * 4
    ELSE IF arg.t = "blob" THEN 4 + ((Len(arg.v) + 3) \div 4) * 4
    ELSE 0

\* what the encoder of that name does with these inputs
EncoderResult(name, a, as, o) ==
    IF name = "encodeOSC" THEN encodeOSC(a, as, o)
    ELSE IF name = "encodeOSC_UTF8" THEN encodeOSC_UTF8(a, as, o)
    ELSE encodeOSCSlow(a, as, o)

\* an encoder has returned a packet for inputs that are valid for it
C13_Returned ==
    /\ EncoderCalled
    /\ StartsWithSlash(inAddr)
    /\ \A t \in Texts(inAddr, inArgs) : ~HasNul(t) /\ (efn = "encodeOSC" => IsAscii(t))
    /\ enc.kind = "return"

\* C13: in the packet of each encoder a (finite) number has tag 'i' and 4
\* bytes of payload iff it has no fractional part; otherwise tag 'f' and 4
\* bytes when f64 is off, tag 'd' and 8 bytes when f64 is on; and the f64
\* option does not change the packet when every number is integer-valued.
C13_NumericClassification ==
    C13_Returned =>
        LET tt_offset == FieldEnd(enc.packet, 0)
        IN /\ \A k \in 1..Len(inArgs) :
                 inArgs[k].t = "num"
                    => enc.packet[tt_offset + 1 + k] = NumTag(inArgs[k].v, inOptions.f64)
           /\ Len(enc.packet) = FieldEnd(enc.packet, tt_offset)
                 + SumSeq([k \in 1..Len(inArgs) |-> PayloadSize(inArgs[k], inOptions.f64)])
           /\ ((\A n \in Numbers(inArgs) : ~HasFraction(n))
                 => enc = EncoderResult(efn, inAddr, inArgs,
                                        [inOptions EXCEPT !.f64 = ~inOptions.f64]))

\* a packet with f64 on that holds an integer-valued number and a fraction
C13_Witness ==
    /\ C13_Returned
    /\ inOptions.f64
    /\ \E n \in Numbers(inArgs) : HasFraction(n)
    /\ \E n \in Numbers(inArgs) : ~HasFraction(n)

(***************************************************************************)
(* C16: the length of a packet.                                            *)
(***************************************************************************)
\* C16: every packet returned by encodeOSC (whatever the oversize),
\* encodeOSC_UTF8 or encodeOSCSlow has a length that is a multiple of 4 and
\* at least 8, so that the length checks of both decoders pass; for the
\* address "/a" and no argument the length is 8.
C16_PacketLength ==
    EncoderCalled /\ enc.kind = "return"
        => /\ Len(enc.packet) % 4 = 0
           /\ Len(enc.packet) >= 8
           /\ ~decodeOSC_lengthError(enc.packet)
           /\ ~decodeOSCSlow_lengthError(enc.packet)
           /\ (inAddr = <<47, 97>> /\ inArgs = <<>> => Len(enc.packet) = 8)

\* encodeOSC has returned a packet for a call with oversize and arguments
C16_Witness ==
    /\ EncoderCalled
    /\ efn = "encodeOSC"
    /\ inOptions.oversize > 0
    /\ Len(inArgs) > 1
    /\ enc.kind = "return"
    /\ Len(enc.packet) > 8

(***************************************************************************)
(* C18: type tags the decoders do not know.                                *)
(***************************************************************************)
KnownTags == {ASCII_s, ASCII_i, ASCII_f, ASCII_d, ASCII_b, ASCII_T, ASCII_F}

\* the bytes of the type tag field of p after the ','
TypeTags(p) ==
    SubSeq(p, FieldEnd(p, 0) + 2, IndexOf(p, ASCII_NULL, FieldEnd(p, 0)))

\* the number of tags of tt the decoders know
RECURSIVE CountKnown(_)
CountKnown(tt) ==
    IF tt = <<>> THEN 0
    ELSE (IF Head(tt) \in KnownTags THEN 1 ELSE 0) + CountKnown(Tail(tt))

\* C18: on a legal packet whose type tag string has a character outside
\* s, i, f, d, b, T, F, both decoders return one argument per known tag, with
\* no hole, and the same result.
C18_UnknownTagsSkipped ==
    pc = "decoded" /\ LegalPacket(wire)
        /\ (\E k \in 1..Len(TypeTags(wire)) : TypeTags(wire)[k] \notin KnownTags)
      => /\ dec.kind = "return"
         /\ Len(dec.args) = CountKnown(TypeTags(wire))
         /\ \A k \in 1..Len(dec.args) : dec.args[k] # Hole
         /\ decodeOSC(wire) = decodeOSCSlow(wire)

(***************************************************************************)
(* C19: integers and the 32-bit field.                                     *)
(***************************************************************************)
IsZero(num) == NumExp(num) = 0 /\ AllZero(NumFrac(num))

\* the same number (0 and -0 are not told apart)
SameNumber(a, b) ==
    /\ a.t = "num"
    /\ b.t = "num"
    /\ (a.v = b.v \/ (IsZero(a.v) /\ IsZero(b.v)))

\* C19: every integer-valued number, whatever its magnitude, comes back from
\* the decoder as the same number: it is not wrapped modulo 2^32.
C19_IntegersSurvive ==
    pc = "decoded" /\ C13_Returned
        => /\ dec.kind = "return"
           /\ Len(dec.args) = Len(inArgs)
           /\ \A k \in 1..Len(inArgs) :
                 inArgs[k].t = "num" /\ ~HasFraction(inArgs[k].v)
                    => SameNumber(dec.args[k], inArgs[k])

(***************************************************************************)
(* C14: align4.                                                            *)
(***************************************************************************)
\* C14: for every non-negative integer x, the 32-bit integers near 2^31
\* included, align4(x) is a multiple of 4, is at least x and is less than x + 4.
C14_Align4Contract ==
    pc = "computed" /\ hfn = "align4"
        => /\ hout % 4 = 0
           /\ hout >= hin[1]
           /\ hout - hin[1] < 4

(***************************************************************************)
(* C15: pad.                                                               *)
(***************************************************************************)
\* C15: for all non-negative content and minPad, pad(content, minPad) is the
\* smallest p >= minPad for which content + p is a multiple of 4, so that
\* minPad <= p < minPad + 4; pad(0, 1) = 4 and pad(4, 1) = 4.
C15_PadContract ==
    pc = "computed" /\ hfn = "pad"
        => /\ hout >= hin[2]
           /\ hout < hin[2] + 4
           /\ (hin[1] + hout) % 4 = 0
           /\ \A p \in hin[2]..(hout - 1) : (hin[1] + p) % 4 # 0
           /\ (hin = <<0, 1>> => hout = 4)
           /\ (hin = <<4, 1>> => hout = 4)

\* pad(4, 1) has been computed: a full block of padding
C15_Witness ==
    /\ pc = "computed"
    /\ hfn = "pad"
    /\ hin = <<4, 1>>
    /\ hout = 4

(***************************************************************************)
(* C17: round trip of the codec of the earlier release.                    *)
(***************************************************************************)
\* an address that starts with '/'; texts without NUL, unpaired surrogate or
\* leading U+FEFF; integers of [-2^31, 2^31) other than -0; booleans; blobs
C17_Inputs ==
    /\ StartsWithSlash(inAddr)
    /\ \A t \in Texts(inAddr, inArgs) :
          ~HasNul(t) /\ WellFormed(t) /\ At(t, 0) # BOM
    /\ \A k \in 1..Len(inArgs) : inArgs[k].t \in {"str", "num", "bool", "blob"}
    /\ \A n \in Numbers(inArgs) : IsInt32Num(n)

\* C17: for every address that starts with '/' and every argument list of
\* strings without NUL, integers of the int32 range, booleans and blobs,
\* encodeOSC of the earlier release returns a packet, and decodeOSC of the
\* earlier release returns from it the same address and the same arguments:
\* no argument is dropped and every blob has its bytes in the same order.
C17_OldRoundTrip ==
    /\ (efn = "old_encodeOSC" /\ C17_Inputs => enc.kind = "return")
    /\ (Pair("old_encodeOSC", "old_decodeOSC") /\ C17_Inputs
          => dec = DecReturn(inAddr, inArgs))

(***************************************************************************)
(* C20: delivery by TCPOSCAdapter.                                         *)
(***************************************************************************)
\* decodeOSC returns on the packet
C20_Decodes(packet) == decodeOSC(packet).kind = "return"

\* the call of on_packet for the packet
C20_Handed(packet) == on_packet(decodeOSC(packet).addr, decodeOSC(packet).args)

\* encodeOSC returns on the arguments of the call of send
C20_Encodes(call) ==
    encodeOSC(call.addr, call.args, [oversize |-> 0, f64 |-> FALSE]).kind = "return"

C20_Frame(call) ==
    encodeSLIP(encodeOSC(call.addr, call.args, [oversize |-> 0, f64 |-> FALSE]).packet)

\* #send_socket has been called once for each call of send on which encodeOSC
\* returned, in the order of the calls, with the frame of the packet, and not
\* for the calls on which encodeOSC threw
C20_Sent ==
    LET done == SelectSeq(sendCalls, C20_Encodes)
    IN socket = [k \in 1..Len(done) |-> C20_Frame(done[k])]

\* C20 as stated: on_packet has been called exactly once for each packet
\* taken from the SLIP decoder, in the order they were taken, with the
\* address and the arguments decodeOSC returns for it; and C20_Sent.
C20_OrderedDelivery ==
    /\ delivered = [k \in 1..Len(taken) |-> C20_Handed(taken[k])]
    /\ C20_Sent

\* C20 amended: on_packet has been called exactly once for each packet taken
\* from the SLIP decoder that decodeOSC decodes, in the order they were taken,
\* with the address and the arguments decodeOSC returns for it; each packet
\* on which decodeOSC throws has made one call of recv throw; and C20_Sent.
C20_OrderedDeliveryAmended ==
    LET decoded == SelectSeq(taken, C20_Decodes)
    IN /\ delivered = [k \in 1..Len(decoded) |-> C20_Handed(decoded[k])]
       /\ Len(recvThrown) = Len(taken) - Len(decoded)
       /\ C20_Sent

\* two packets have been delivered, a call of recv has thrown, a call of send
\* has reached the socket and another has thrown
C20_Witness ==
    /\ Len(delivered) >= 2
    /\ recvThrown # <<>>
    /\ socket # <<>>
    /\ Len(sendCalls) > Len(socket)

(***************************************************************************)
(* C21: the size assertion of encodeOSC_UTF8.                              *)
(***************************************************************************)
\* C21: for every address, every argument list of strings, numbers, booleans
\* and blobs and both settings of f64, a call of encodeOSC_UTF8 does not end
\* in its assert (offset === packet_size fails) nor in a write outside the
\* buffer (a RangeError of packet.set or of the DataView): it returns.
C21_AssertHolds ==
    efn = "encodeOSC_UTF8" =>
        /\ enc.kind \notin {"AssertionError", "RangeError"}
        /\ enc.kind = "return"

\* encodeOSC_UTF8 has returned on a list with a string of more bytes than
\* characters and a blob whose length is no multiple of 4, with f64 set
C21_Witness ==
    /\ efn = "encodeOSC_UTF8"
    /\ enc.kind = "return"
    /\ inOptions.f64
    /\ \E k \in 1..Len(inArgs) : inArgs[k].t = "str" /\ ~IsAscii(inArgs[k].v)
    /\ \E k \in 1..Len(inArgs) : inArgs[k].t = "blob" /\ Len(inArgs[k].v) % 4 # 0

(***************************************************************************)
(* C22: the length of a decoded blob.                                      *)
(***************************************************************************)
\* the arguments as follow the type tags tags of packet p, payloads from
\* offset off on: each argument of tag 'b' has a length prefix inside the
\* packet, the declared bytes are all inside the packet, and the argument is
\* those bytes
RECURSIVE C22_BlobsAsDeclared(_, _, _, _)
C22_BlobsAsDeclared(p, tags, off, as) ==
    IF tags = <<>> \/ as = <<>> THEN TRUE
    ELSE LET t == Head(tags)
             n == Int32Value(SubSeq(p, off + 1, off + 4))
         IN IF t = ASCII_s
            THEN FieldEnd(p, off) < 0
                   \/ C22_BlobsAsDeclared(p, Tail(tags), FieldEnd(p, off), Tail(as))
            ELSE IF t = ASCII_i \/ t = ASCII_f
            THEN C22_BlobsAsDeclared(p, Tail(tags), off + 4, Tail(as))
            ELSE IF t = ASCII_d
            THEN C22_BlobsAsDeclared(p, Tail(tags), off + 8, Tail(as))
            ELSE IF t = ASCII_b
            THEN /\ off + 4 <= Len(p)
                 /\ n >= 0
                 /\ off + 4 + n <= Len(p)
                 /\ Head(as) = Blob(SubSeq(p, off + 5, off + 4 + n))
                 /\ C22_BlobsAsDeclared(p, Tail(tags), off + 4 + align4(n), Tail(as))
            ELSE C22_BlobsAsDeclared(p, Tail(tags), off, Tail(as))

\* the address field and the type tag field of p are NUL-terminated and
\* zero-padded, the address starts with '/', the type tag string starts with
\* ',' and has known tags only
C22_Header(p) ==
    /\ At(p, 0) = ASCII_SLASH
    /\ FieldEnd(p, 0) >= 0
    /\ At(p, FieldEnd(p, 0)) = ASCII_COMMA
    /\ FieldEnd(p, FieldEnd(p, 0)) >= 0
    /\ \A k \in 1..Len(TypeTags(p)) : TypeTags(p)[k] \in KnownTags

\* C22: on every packet on which decodeOSC or decodeOSCSlow returns, each
\* argument of tag 'b' has exactly the bytes its length prefix declares, all
\* of them bytes of the packet; a declared length that exceeds the rest of the
\* packet makes the decoder fail.  Stated for packets with a well-formed
\* address field and type tag field and known tags, so that the address check
\* of C4 and the hole of C18 play no part.
C22_BlobLength ==
    pc = "decoded" /\ dfn \in {"decodeOSC", "decodeOSCSlow"}
        /\ dec.kind = "return" /\ C22_Header(wire)
      => C22_BlobsAsDeclared(wire, TypeTags(wire), FieldEnd(wire, FieldEnd(wire, 0)),
                             dec.args)

====
